---- MODULE Spec2Model ----
(***************************************************************************)
(* Model of src/html/generate_report.py: the benchmark report generator.  *)
(* main() scans results/<subdir>/<file>, parses each eligible CSV into a  *)
(* Record (read_csvs), groups and reduces the records (aggregate), sorts  *)
(* the summary rows and writes data.json (write_data_json).               *)
(*                                                                         *)
(* Representation of Python values:                                        *)
(*   str            a TLA+ string                                          *)
(*   None           [k |-> "None"]                                         *)
(*   str | None     None or [k |-> "str", s |-> <string>]                  *)
(*   float          [k |-> "float", m |-> <thousandths>], or NaN, or Inf   *)
(*   int            [k |-> "int", n |-> <integer>]                         *)
(* A finite float is kept exactly, as an integer number of thousandths.    *)
(* The numeric literals of the model are multiples of 0.25, so that every  *)
(* third-decimal tie that a mean of at most six of them can produce is a   *)
(* multiple of 0.125, exactly representable in binary, where Python's      *)
(* round() rounds half to even.                                            *)
(***************************************************************************)
EXTENDS Integers, Sequences, FiniteSets, TLC

VARIABLES
    root,      \* state of RESULTS on disk: "absent" or "dir"
    corpus,    \* the listing of RESULTS as iterdir() has revealed it so far
    pc,        \* position of main()
    records,   \* read_csvs: records
    summary,   \* aggregate: the returned summary (<<>> before it returns)
    doc,       \* content of DATA_JSON on disk
    opens,     \* number of times DATA_JSON was opened for writing
    log,       \* lines printed so far
    returned   \* how main() ended: "no", "0", "1" or "exception"

vars == <<root, corpus, pc, records, summary, doc, opens, log, returned>>

(***************************************************************************)
(* Bounds of the model.                                                    *)
(***************************************************************************)
MaxRootEntries == 2
MaxFiles == 3
MaxRecords == 3

(***************************************************************************)
(* Python values.                                                          *)
(***************************************************************************)
None == [k |-> "None"]
Str(s) == [k |-> "str", s |-> s]
Float(m) == [k |-> "float", m |-> m]
NaN == [k |-> "nan"]
Inf == [k |-> "inf"]
PyInt(n) == [k |-> "int", n |-> n]
ValueError == [k |-> "ValueError"]
OverflowError == [k |-> "OverflowError"]
IsError(x) == x.k \in {"ValueError", "OverflowError"}

(***************************************************************************)
(* str.upper() and str.lower() on the strings of the model. A string with  *)
(* no cased letter (digits, punctuation, the empty string) is unchanged.   *)
(***************************************************************************)
CasedStrings ==
    {"NA", "na", "Na", "nan", "NaN", "NAN", "inf", "INF", "abc", "ABC", "N/A", "n/a"}

Upper(s) ==
    CASE s \in {"NA", "na", "Na"} -> "NA"
      [] s \in {"nan", "NaN", "NAN"} -> "NAN"
      [] s \in {"inf", "INF"} -> "INF"
      [] s \in {"abc", "ABC"} -> "ABC"
      [] s \in {"N/A", "n/a"} -> "N/A"
      [] s \notin CasedStrings -> s

Lower(s) ==
    CASE s \in {"NA", "na", "Na"} -> "na"
      [] s \in {"nan", "NaN", "NAN"} -> "nan"
      [] s \in {"inf", "INF"} -> "inf"
      [] s \in {"abc", "ABC"} -> "abc"
      [] s \in {"N/A", "n/a"} -> "n/a"
      [] s \notin CasedStrings -> s

(***************************************************************************)
(* float(s): the decimal literals of the model with their value in         *)
(* thousandths; "nan" and "inf" in any case are accepted by float() and    *)
(* surrounding whitespace is stripped; anything else raises ValueError.    *)
(***************************************************************************)
FloatLiterals ==
    ("0" :> 0) @@ ("0.25" :> 250) @@ ("10.5" :> 10500) @@ ("2" :> 2000) @@
    ("3" :> 3000) @@ ("4" :> 4000) @@ ("10" :> 10000) @@ ("02" :> 2000) @@
    (" 2" :> 2000)

PyFloat(s) ==
    IF s \in DOMAIN FloatLiterals THEN Float(FloatLiterals[s])
    ELSE IF Lower(s) \in {"nan", " nan"} THEN NaN
    ELSE IF Lower(s) = "inf" THEN Inf
    ELSE ValueError

(***************************************************************************)
(* int(s): optional whitespace and leading zeros are accepted; a decimal   *)
(* point, letters or the empty string raise ValueError.                    *)
(***************************************************************************)
IntLiterals ==
    ("0" :> 0) @@ ("2" :> 2) @@ ("3" :> 3) @@ ("4" :> 4) @@ ("10" :> 10) @@
    ("02" :> 2) @@ (" 2" :> 2)

PyIntOf(s) ==
    IF s \in DOMAIN IntLiterals THEN PyInt(IntLiterals[s]) ELSE ValueError

(***************************************************************************)
(* Python's < on str (by code point), on the device descriptors of the     *)
(* model: the sequence lists them in increasing order.                     *)
(***************************************************************************)
StrOrder ==
    <<"", "-", "-CPU", "-GPU", "CPU-", "CPU-CPU", "CPU-GPU", "GPU-", "GPU-CPU",
      "GPU-GPU", "GPU-NPU-CPU", "devA", "devB">>

StrRank(s) == CHOOSE i \in 1..Len(StrOrder) : StrOrder[i] = s
StrLess(a, b) == StrRank(a) < StrRank(b)

(***************************************************************************)
(* CSV_PATTERN.search(name), for the regular expression                    *)
(* e2e-edge-pipeline_.*\.csv$ : the name holds "e2e-edge-pipeline_", then  *)
(* any characters other than a newline, then ".csv" at the end of the name *)
(* or just before a newline that ends the name ($ matches there too). The  *)
(* k-th name-matching entry of a directory carries the k-th eligible name, *)
(* the k-th other entry the k-th other name.                               *)
(***************************************************************************)
EligibleNames ==
    <<"e2e-edge-pipeline_light.csv", "e2e-edge-pipeline_a.csv\n",
      "x_e2e-edge-pipeline_2.csv", "e2e-edge-pipeline_.csv",
      "e2e-edge-pipeline_a.b.csv">>

OtherNames ==
    <<"e2e-edge-pipeline_light.csv.bak", "e2e-edge-pipeline_a\nb.csv",
      "e2e-edge-pipeline.csv", "e2e-edge-pipeline_light.CSV", "notes.csv">>

CSV_PATTERN(name) == \E k \in 1..Len(EligibleNames) : EligibleNames[k] = name

(***************************************************************************)
(* The columns read_csvs looks up. The theoretical-density column name is  *)
(* written with "+-" for the source's plus-minus sign.                     *)
(***************************************************************************)
ColTimestamp == "Timestamp"
ColSystem == "System"
ColDuration == "Duration (s)"
ColCores == "Cores Pinned"
ColConfig == "Pipeline Config"
ColDetect == "Detect Device"
ColClassify == "Classify Device"
ColBatch == "Batch"
ColThroughput == "Throughput (fps)"
ColPerStream == "Throughput per Stream (fps/#)"
ColTheoretical == "Theoretical Stream Density (@30fps+-5%)"
ColStreams == "Measured Stream Density (#)"
ColPipeline1 == "Pipeline1"
ColPipeline2 == "Pipeline2"
ColPipeline == "Pipeline"
ColDeviceConfig == "Device Configuration"
ColAvgPower == "Avg Power (W)"
ColEfficiency == "Efficiency (FPS/W)"

StringColumns ==
    {ColTimestamp, ColSystem, ColDuration, ColCores, ColConfig, ColDetect,
     ColClassify, ColBatch, ColTheoretical, ColStreams}
FloatColumns == {ColThroughput, ColPerStream, ColAvgPower, ColEfficiency}
PipelineColumns == {ColPipeline1, ColPipeline2, ColPipeline}
RecognizedColumns ==
    StringColumns \cup FloatColumns \cup PipelineColumns \cup {ColDeviceConfig}

(***************************************************************************)
(* dict(zip(rows[0], rows[1])): zip stops at the shorter row, and a        *)
(* header name that occurs twice keeps the value of its last occurrence.   *)
(***************************************************************************)
Min(a, b) == IF a <= b THEN a ELSE b

ZipDict(header, data) ==
    LET n == Min(Len(header), Len(data))
        last(c) == CHOOSE i \in 1..n :
                       /\ header[i] = c
                       /\ \A j \in (i + 1)..n : header[j] # c
    IN  [c \in {header[i] : i \in 1..n} |-> data[last(c)]]

\* res_dict.get(col): None when the key is missing
DictGetEmptyDefault(d, col) == IF col \in DOMAIN d THEN Str(d[col]) ELSE Str("")

DictGet(d, col) == IF col \in DOMAIN d THEN Str(d[col]) ELSE None

\* res_dict.get(col, ""): the default when the key is missing
DictGetOr(d, col, default) == IF col \in DOMAIN d THEN d[col] ELSE default

(***************************************************************************)
(* parse_float(value): None for None, "" and any casing of "NA"; float()   *)
(* of anything else, which raises ValueError on a non-numeric string.      *)
(***************************************************************************)
parse_float_none_on_error(value) ==
    IF value.k = "None" \/ value.s = "" \/ Upper(value.s) = "NA" THEN None
    ELSE IF PyFloat(value.s).k = "ValueError" THEN None
    ELSE PyFloat(value.s)

parse_float_na_exact(value) ==
    IF value.k # "None" /\ value.s # "" /\ value.s # "NA"
    THEN PyFloat(value.s)
    ELSE None

parse_float(value) ==
    IF value.k # "None" /\ value.s # "" /\ Upper(value.s) # "NA"
    THEN PyFloat(value.s)
    ELSE None

(***************************************************************************)
(* The pipeline string of read_csvs (lines 70-76).                         *)
(***************************************************************************)
PipelineDataGenericFirst(res_dict) ==
    IF ColPipeline \in DOMAIN res_dict THEN res_dict[ColPipeline]
    ELSE IF ColPipeline1 \in DOMAIN res_dict THEN res_dict[ColPipeline1]
    ELSE ""

PipelineData(res_dict) ==
    IF ColPipeline1 \in DOMAIN res_dict /\ ColPipeline2 \in DOMAIN res_dict
    THEN "Pipeline1: " \o res_dict[ColPipeline1] \o "... | Pipeline2: "
             \o res_dict[ColPipeline2] \o "..."
    ELSE IF ColPipeline1 \in DOMAIN res_dict
    THEN res_dict[ColPipeline1]
    ELSE DictGetOr(res_dict, ColPipeline, "")

(***************************************************************************)
(* Record(...) as read_csvs builds it from res_dict (lines 78-95). The     *)
(* result is the record, or the exception one of the parse_float calls     *)
(* raises (in argument order).                                             *)
(***************************************************************************)
RecordFields ==
    {"timestamp", "system", "duration", "cores", "config", "detect", "classify",
     "batch", "throughput", "per_stream", "theoretical", "streams", "pipeline",
     "device_config", "avg_power", "efficiency"}

MakeRecord(res_dict) ==
    LET thr == parse_float(DictGet(res_dict, ColThroughput))
        per == parse_float(DictGet(res_dict, ColPerStream))
        pwr == parse_float(DictGet(res_dict, ColAvgPower))
        eff == parse_float(DictGet(res_dict, ColEfficiency))
    IN  IF IsError(thr) THEN thr
        ELSE IF IsError(per) THEN per
        ELSE IF IsError(pwr) THEN pwr
        ELSE IF IsError(eff) THEN eff
        ELSE [k |-> "Record",
              timestamp |-> DictGetOr(res_dict, ColTimestamp, ""),
              system |-> DictGetOr(res_dict, ColSystem, ""),
              duration |-> DictGetOr(res_dict, ColDuration, ""),
              cores |-> DictGetOr(res_dict, ColCores, ""),
              config |-> DictGetOr(res_dict, ColConfig, ""),
              detect |-> DictGetOr(res_dict, ColDetect, ""),
              classify |-> DictGetOr(res_dict, ColClassify, ""),
              batch |-> DictGetOr(res_dict, ColBatch, ""),
              throughput |-> thr,
              per_stream |-> per,
              theoretical |-> DictGetOr(res_dict, ColTheoretical, ""),
              streams |-> DictGetOr(res_dict, ColStreams, ""),
              pipeline |-> PipelineData(res_dict),
              device_config |-> DictGet(res_dict, ColDeviceConfig),
              avg_power |-> pwr,
              efficiency |-> eff]

(***************************************************************************)
(* The try block of read_csvs for one file (lines 61-99): what the file    *)
(* adds to records, and what is printed. A file is [name, is_file,         *)
(* readable, rows]; rows is what csv.reader yields for it.                 *)
(*   "record"   a record is appended                                       *)
(*   "short"    fewer than two rows: continue, nothing printed             *)
(*   "except"   open() or the parse raised: a warning is printed           *)
(***************************************************************************)
TryParse(file) ==
    IF ~file.readable THEN [out |-> "except"]
    ELSE IF Len(file.rows) < 2 THEN [out |-> "short"]
    ELSE LET rec == MakeRecord(ZipDict(file.rows[1], file.rows[2]))
         IN  IF IsError(rec) THEN [out |-> "except"]
             ELSE [out |-> "record", rec |-> rec]

(***************************************************************************)
(* aggregate, lines 106-113: the grouping key of a record, and the groups  *)
(* dict: its keys in first-seen order (a dict keeps insertion order) and   *)
(* the records of each key in input order.                                 *)
(***************************************************************************)
\* truth value of r.device_config: None and "" are falsy
Truthy(opt) == opt.k = "str" /\ opt.s # ""

GroupKeyLabelWhenPresent(r) ==
    IF r.device_config.k = "str"
    THEN <<r.config, r.device_config.s, r.batch>>
    ELSE <<r.config, r.detect \o "-" \o r.classify, r.batch>>

GroupKey(r) ==
    IF Truthy(r.device_config)
    THEN <<r.config, r.device_config.s, r.batch>>
    ELSE <<r.config, r.detect \o "-" \o r.classify, r.batch>>

RECURSIVE GroupKeys(_)
GroupKeys(recs) ==
    IF recs = <<>> THEN <<>>
    ELSE LET init == GroupKeys(SubSeq(recs, 1, Len(recs) - 1))
             key == GroupKey(recs[Len(recs)])
         IN  IF \E i \in 1..Len(init) : init[i] = key THEN init
             ELSE Append(init, key)

GroupRecsByTierAndBatch(recs, key) ==
    LET InGroup(r) == GroupKey(r)[1] = key[1] /\ GroupKey(r)[3] = key[3]
    IN  SelectSeq(recs, InGroup)

GroupRecsReversed(recs, key) ==
    LET InGroup(r) == GroupKey(r) = key
        found == SelectSeq(recs, InGroup)
    IN  [i \in 1..Len(found) |-> found[Len(found) + 1 - i]]

GroupRecs(recs, key) ==
    LET InGroup(r) == GroupKey(r) = key
    IN  SelectSeq(recs, InGroup)

(***************************************************************************)
(* statistics.mean and round on the floats of the model. A NaN among the   *)
(* values makes the mean NaN, otherwise an infinity makes it infinite;     *)
(* round(x, 2) keeps NaN and infinity; int(round(x)) raises ValueError on  *)
(* NaN and OverflowError on infinity. Finite values are exact, and ties    *)
(* round half to even.                                                     *)
(***************************************************************************)
RECURSIVE SumMilli(_)
SumMilli(vals) ==
    IF vals = <<>> THEN 0 ELSE vals[1].m + SumMilli(Tail(vals))

\* a / b rounded to the nearest integer, ties to the even one (b > 0)
RoundHalfEvenDiv(a, b) ==
    LET q == a \div b
        r == a % b
    IN  IF 2 * r < b THEN q
        ELSE IF 2 * r > b THEN q + 1
        ELSE IF q % 2 = 0 THEN q ELSE q + 1

\* the exact mean, as the fraction num / den of thousandths
Mean(vals) ==
    IF \E i \in 1..Len(vals) : vals[i].k = "nan" THEN NaN
    ELSE IF \E i \in 1..Len(vals) : vals[i].k = "inf" THEN Inf
    ELSE [k |-> "float", num |-> SumMilli(vals), den |-> Len(vals)]

\* round(mean(vals), 2)
RoundMean2(vals) ==
    LET mu == Mean(vals)
    IN  IF mu.k # "float" THEN mu
        ELSE Float(10 * RoundHalfEvenDiv(mu.num, 10 * mu.den))

\* int(round(mean(vals)))
IntRoundMean(vals) ==
    LET mu == Mean(vals)
    IN  IF mu.k = "nan" THEN ValueError
        ELSE IF mu.k = "inf" THEN OverflowError
        ELSE PyInt(RoundHalfEvenDiv(mu.num, 1000 * mu.den))

(***************************************************************************)
(* aggregate, lines 119-133: the value lists of one group.                 *)
(***************************************************************************)
Present(x) == x.k # "None"

RECURSIVE FieldVals(_, _)
FieldVals(recs, field) ==
    IF recs = <<>> THEN <<>>
    ELSE LET rest == FieldVals(Tail(recs), field)
         IN  IF Present(recs[1][field]) THEN <<recs[1][field]>> \o rest ELSE rest

\* lines 127-133: float() of every theoretical value that is non-empty and
\* not "na"/"nan" in any casing; a ValueError of float() skips the value
RECURSIVE TheoVals(_)
TheoVals(recs) ==
    IF recs = <<>> THEN <<>>
    ELSE LET t == recs[1].theoretical
             rest == TheoVals(Tail(recs))
         IN  IF t # "" /\ Lower(t) \notin {"na", "nan"} /\ ~IsError(PyFloat(t))
             THEN <<PyFloat(t)>> \o rest
             ELSE rest

(***************************************************************************)
(* aggregate, lines 135-149: the summary row of one group, or the          *)
(* exception that int(round(mean(theo_vals))) raises.                      *)
(***************************************************************************)
SummaryKeys ==
    {"config", "device_config", "detect", "classify", "batch", "runs",
     "avg_throughput", "theoretical_streams", "avg_power", "efficiency"}

ReduceOrZero(vals) == IF vals # <<>> THEN RoundMean2(vals) ELSE Float(0)

Reduce(vals) == IF vals # <<>> THEN RoundMean2(vals) ELSE None

SummaryRow(key, recs) ==
    LET thr == FieldVals(recs, "throughput")
        pwr == FieldVals(recs, "avg_power")
        eff == FieldVals(recs, "efficiency")
        theo_vals == TheoVals(recs)
        first_rec == recs[1]
        theo == IF theo_vals # <<>> THEN IntRoundMean(theo_vals) ELSE None
    IN  IF IsError(theo) THEN theo
        ELSE [k |-> "row",
              config |-> key[1],
              device_config |-> key[2],
              detect |-> first_rec.detect,
              classify |-> first_rec.classify,
              batch |-> key[3],
              runs |-> Len(recs),
              avg_throughput |-> Reduce(thr),
              theoretical_streams |-> theo,
              avg_power |-> Reduce(pwr),
              efficiency |-> Reduce(eff)]

(***************************************************************************)
(* aggregate, lines 151-157: list.sort with the key (tier rank, device     *)
(* descriptor, int(batch)). The sort is stable: rows with equal keys keep  *)
(* their order. int(batch) raises ValueError on a non-integer batch.       *)
(***************************************************************************)
order_map == ("light" :> 0) @@ ("medium" :> 1) @@ ("heavy" :> 2)

UnlistedRank == 99

TierRankUnlistedFirst(config) ==
    IF config \in DOMAIN order_map THEN order_map[config] ELSE 0

TierRank(config) ==
    IF config \in DOMAIN order_map THEN order_map[config] ELSE UnlistedRank

SortKey(row) == <<TierRank(row.config), row.device_config, PyIntOf(row.batch).n>>

\* tuple comparison a < b of two sort keys
SortKeyLess(a, b) ==
    \/ a[1] < b[1]
    \/ a[1] = b[1] /\ StrLess(a[2], b[2])
    \/ a[1] = b[1] /\ a[2] = b[2] /\ a[3] < b[3]

\* x goes before the first row whose key is greater than its own
InsertSorted(sorted, x) ==
    LET after == {i \in 1..Len(sorted) : SortKeyLess(SortKey(x), SortKey(sorted[i]))}
        pos == IF after = {} THEN Len(sorted) + 1
               ELSE CHOOSE i \in after : \A j \in after : i <= j
    IN  SubSeq(sorted, 1, pos - 1) \o <<x>> \o SubSeq(sorted, pos, Len(sorted))

Unsorted(rows) == rows

RECURSIVE StableSort(_)
StableSort(rows) ==
    IF rows = <<>> THEN <<>>
    ELSE InsertSorted(StableSort(SubSeq(rows, 1, Len(rows) - 1)), rows[Len(rows)])

(***************************************************************************)
(* aggregate(records): [raised |-> FALSE, summary |-> the sorted rows], or *)
(* [raised |-> TRUE, exc |-> the exception]: the first group (in dict      *)
(* order) whose row raises, else the ValueError of int(batch) in the sort  *)
(* key.                                                                    *)
(***************************************************************************)
aggregate(recs) ==
    LET keys == GroupKeys(recs)
        rows == [i \in 1..Len(keys) |-> SummaryRow(keys[i], GroupRecs(recs, keys[i]))]
    IN  IF \E i \in 1..Len(rows) : IsError(rows[i])
        THEN [raised |-> TRUE,
              exc |-> rows[CHOOSE i \in 1..Len(rows) :
                               /\ IsError(rows[i])
                               /\ \A j \in 1..(i - 1) : ~IsError(rows[j])]]
        ELSE IF \E i \in 1..Len(rows) : IsError(PyIntOf(rows[i].batch))
        THEN [raised |-> TRUE, exc |-> ValueError]
        ELSE [raised |-> FALSE, summary |-> StableSort(rows)]

(***************************************************************************)
(* json.dump: the JSON text of a Python value, as a JSON value.            *)
(*   null                    [j |-> "null"]                                *)
(*   "s"                     [j |-> "string", s |-> s]                     *)
(*   a number with fraction  [j |-> "number", frac |-> TRUE, m |-> ...]    *)
(*   an integer number       [j |-> "number", frac |-> FALSE, m |-> ...]   *)
(*   NaN, Infinity           [j |-> "NaN"], [j |-> "Infinity"]             *)
(* json.dump writes a float with its repr (always with a fraction part,    *)
(* and exactly), an int without one, and None as null.                     *)
(***************************************************************************)
JsonNull == [j |-> "null"]
JsonString(s) == [j |-> "string", s |-> s]

JsonOfZeroForNone(x) ==
    CASE x.k = "None" -> [j |-> "number", frac |-> TRUE, m |-> 0]
      [] x.k = "str" -> JsonString(x.s)
      [] x.k = "float" -> [j |-> "number", frac |-> TRUE, m |-> x.m]
      [] x.k = "int" -> [j |-> "number", frac |-> FALSE, m |-> 1000 * x.n]
      [] x.k = "nan" -> [j |-> "NaN"]
      [] x.k = "inf" -> [j |-> "Infinity"]

JsonOf(x) ==
    CASE x.k = "None" -> JsonNull
      [] x.k = "str" -> JsonString(x.s)
      [] x.k = "float" -> [j |-> "number", frac |-> TRUE, m |-> x.m]
      [] x.k = "int" -> [j |-> "number", frac |-> FALSE, m |-> 1000 * x.n]
      [] x.k = "nan" -> [j |-> "NaN"]
      [] x.k = "inf" -> [j |-> "Infinity"]

\* dataclasses.asdict(r), serialized: the sixteen fields of Record
AsDictJson(r) ==
    [timestamp |-> JsonString(r.timestamp),
     system |-> JsonString(r.system),
     duration |-> JsonString(r.duration),
     cores |-> JsonString(r.cores),
     config |-> JsonString(r.config),
     detect |-> JsonString(r.detect),
     classify |-> JsonString(r.classify),
     batch |-> JsonString(r.batch),
     throughput |-> JsonOf(r.throughput),
     per_stream |-> JsonOf(r.per_stream),
     theoretical |-> JsonString(r.theoretical),
     streams |-> JsonString(r.streams),
     pipeline |-> JsonString(r.pipeline),
     device_config |-> JsonOf(r.device_config),
     avg_power |-> JsonOf(r.avg_power),
     efficiency |-> JsonOf(r.efficiency)]

\* a summary row (the dict of lines 138-149), serialized
RowJsonFalsyAsNull(row) ==
    LET OrNone(x) == IF x \in {Float(0), PyInt(0)} THEN None ELSE x
    IN  [config |-> JsonString(row.config),
         device_config |-> JsonString(row.device_config),
         detect |-> JsonString(row.detect),
         classify |-> JsonString(row.classify),
         batch |-> JsonString(row.batch),
         runs |-> JsonOf(PyInt(row.runs)),
         avg_throughput |-> JsonOf(OrNone(row.avg_throughput)),
         theoretical_streams |-> JsonOf(OrNone(row.theoretical_streams)),
         avg_power |-> JsonOf(OrNone(row.avg_power)),
         efficiency |-> JsonOf(OrNone(row.efficiency))]

RowJson(row) ==
    [config |-> JsonString(row.config),
     device_config |-> JsonString(row.device_config),
     detect |-> JsonString(row.detect),
     classify |-> JsonString(row.classify),
     batch |-> JsonString(row.batch),
     runs |-> JsonOf(PyInt(row.runs)),
     avg_throughput |-> JsonOf(row.avg_throughput),
     theoretical_streams |-> JsonOf(row.theoretical_streams),
     avg_power |-> JsonOf(row.avg_power),
     efficiency |-> JsonOf(row.efficiency)]

\* the document write_data_json dumps (lines 164-169)
RootMtime == "1730000000.0"

DataJson(summ, raw_records, results_exists) ==
    [k |-> "data",
     summary |-> [i \in 1..Len(summ) |-> RowJson(summ[i])],
     raw |-> [i \in 1..Len(raw_records) |-> AsDictJson(raw_records[i])],
     generated |-> JsonString("Generated by generate_report.py"),
     timestamp |-> IF results_exists THEN JsonString(RootMtime) ELSE JsonNull]

\* DATA_JSON before the run: whatever an earlier run left there
PriorDoc == [k |-> "prior"]

(***************************************************************************)
(* The corpus. RESULTS.iterdir() and devconfig_dir.iterdir() yield the     *)
(* entries of the directory one at a time; corpus is the listing so far:   *)
(* a sequence of root entries [name, is_dir, files], files being the       *)
(* entries [name, is_file, readable, rows] of a subdirectory.              *)
(***************************************************************************)
RootNames == <<"cpu", "gpu", "npu", "igpu", "misc">>

RunHeader == <<ColConfig, ColBatch, ColThroughput, ColTheoretical>>

\* the rows of the files of a run: good files, a file whose numeric column
\* does not coerce, a file with no Batch column, short files
GoodRows ==
    {<<RunHeader, <<"light", "2", "10.5", "3">>>>,
     <<RunHeader, <<"light", "2", "NA", "NA">>>>,
     <<RunHeader, <<"foo", "10", "0", "4">>>>,
     <<<<ColConfig, ColThroughput>>, <<"light", "0.25">>>>}
BadNumberRows == {<<RunHeader, <<"light", "2", "abc", "3">>>>}
ShortRows == {<<>>, <<RunHeader>>}

\* the entries a subdirectory's listing can yield at position pos
EligibleFiles(pos) ==
    {[name |-> EligibleNames[pos], is_file |-> TRUE, readable |-> TRUE, rows |-> rows] :
        rows \in GoodRows \cup BadNumberRows \cup ShortRows}
    \cup {[name |-> EligibleNames[pos], is_file |-> TRUE, readable |-> FALSE,
           rows |-> <<>>]}

OtherEntries(pos) ==
    {[name |-> OtherNames[pos], is_file |-> TRUE, readable |-> TRUE,
      rows |-> <<RunHeader, <<"light", "2", "10.5", "3">>>>],
     [name |-> EligibleNames[pos], is_file |-> FALSE, readable |-> TRUE,
      rows |-> <<>>]}

RECURSIVE CountFiles(_)
CountFiles(listing) ==
    IF listing = <<>> THEN 0
    ELSE Len(listing[1].files) + CountFiles(Tail(listing))

\* the listing with entry e added to its last (the current) subdirectory
AddFile(listing, e) ==
    [listing EXCEPT ![Len(listing)].files = Append(@, e)]

(***************************************************************************)
(* Lines printed (print calls), as [level, text, arg].                     *)
(***************************************************************************)
InfoScanning(dirname) == [level |-> "Info", text |-> "Scanning", arg |-> dirname]
WarnFailed(filename) == [level |-> "Warning", text |-> "Failed to parse", arg |-> filename]
ErrorNoFiles == [level |-> "Error", text |-> "No benchmark CSV files found", arg |-> ""]
InfoGenerated == [level |-> "Info", text |-> "Generated data file", arg |-> "data.json"]
InfoDashboard == [level |-> "Info", text |-> "Dashboard ready at", arg |-> "index.html"]
InfoProcessed == [level |-> "Info", text |-> "Processed", arg |-> ""]

(***************************************************************************)
(* The run of main().                                                      *)
(***************************************************************************)
Init ==
    /\ root \in {"absent", "dir"}
    /\ corpus = <<>>
    /\ pc = "main"
    /\ records = <<>>
    /\ summary = <<>>
    /\ doc = PriorDoc
    /\ opens = 0
    /\ log = <<>>
    /\ returned = "no"

\* main line 177, read_csvs lines 46-48: a missing RESULTS returns no records
ReadCsvsStart ==
    /\ pc = "main"
    /\ pc' = IF root = "absent" THEN "check" ELSE "dirs"
    /\ UNCHANGED <<root, corpus, records, summary, doc, opens, log, returned>>

\* lines 51-53: RESULTS.iterdir() yields an entry that is not a directory
SkipRootEntry ==
    /\ pc = "dirs"
    /\ Len(corpus) < MaxRootEntries
    /\ corpus' = Append(corpus,
                        [name |-> EligibleNames[Len(corpus) + 1], is_dir |-> FALSE,
                         files |-> <<>>])
    /\ UNCHANGED <<root, pc, records, summary, doc, opens, log, returned>>

\* lines 51-55: RESULTS.iterdir() yields a subdirectory
EnterDir ==
    /\ pc = "dirs"
    /\ Len(corpus) < MaxRootEntries
    /\ LET name == RootNames[Len(corpus) + 1]
       IN  /\ corpus' = Append(corpus, [name |-> name, is_dir |-> TRUE, files |-> <<>>])
           /\ log' = Append(log, InfoScanning(name))
    /\ pc' = "files"
    /\ UNCHANGED <<root, records, summary, doc, opens, returned>>

\* lines 57-59: the subdirectory yields an entry that is no regular file or
\* whose name does not match CSV_PATTERN
SkipEntry ==
    /\ pc = "files"
    /\ CountFiles(corpus) < MaxFiles
    /\ \E e \in EligibleFiles(Len(corpus[Len(corpus)].files) + 1)
                    \cup OtherEntries(Len(corpus[Len(corpus)].files) + 1) :
           /\ ~e.is_file \/ ~CSV_PATTERN(e.name)
           /\ corpus' = AddFile(corpus, e)
    /\ UNCHANGED <<root, pc, records, summary, doc, opens, log, returned>>

\* lines 61-99: the try block for entry e, and the except clause
TryBlock(e) ==
    LET res == TryParse(e)
    IN  /\ records' = IF res.out = "record" THEN Append(records, res.rec) ELSE records
        /\ log' = IF res.out = "except" THEN Append(log, WarnFailed(e.name)) ELSE log

\* lines 57-99: the subdirectory yields an eligible file
ParseFile ==
    /\ pc = "files"
    /\ CountFiles(corpus) < MaxFiles
    /\ \E e \in EligibleFiles(Len(corpus[Len(corpus)].files) + 1)
                    \cup OtherEntries(Len(corpus[Len(corpus)].files) + 1) :
           /\ e.is_file /\ CSV_PATTERN(e.name)
           /\ corpus' = AddFile(corpus, e)
           /\ TryBlock(e)
    /\ UNCHANGED <<root, pc, summary, doc, opens, returned>>

\* line 57: the subdirectory's listing ends
FileLoopEnd ==
    /\ pc = "files"
    /\ pc' = "dirs"
    /\ UNCHANGED <<root, corpus, records, summary, doc, opens, log, returned>>

\* lines 51, 101: the root listing ends and read_csvs returns records
DirLoopEnd ==
    /\ pc = "dirs"
    /\ pc' = "check"
    /\ UNCHANGED <<root, corpus, records, summary, doc, opens, log, returned>>

\* main line 178: not records
NoRecordsNever(recs) == FALSE

NoRecords(recs) == recs = <<>>

\* main lines 178-180
MainNoRecords ==
    /\ pc = "check"
    /\ NoRecords(records)
    /\ log' = Append(log, ErrorNoFiles)
    /\ returned' = "1"
    /\ pc' = "done"
    /\ UNCHANGED <<root, corpus, records, summary, doc, opens>>

AggregateSwallowingErrors ==
    /\ pc = "check"
    /\ ~NoRecords(records)
    /\ LET res == aggregate(records)
       IN  summary' = IF res.raised THEN <<>> ELSE res.summary
    /\ pc' = "write"
    /\ UNCHANGED <<root, corpus, records, doc, opens, log, returned>>

\* main line 182: aggregate returns the summary, or raises out of main
Aggregate ==
    /\ pc = "check"
    /\ ~NoRecords(records)
    /\ LET res == aggregate(records)
       IN  IF res.raised
           THEN /\ returned' = "exception"
                /\ pc' = "done"
                /\ UNCHANGED summary
           ELSE /\ summary' = res.summary
                /\ pc' = "write"
                /\ UNCHANGED returned
    /\ UNCHANGED <<root, corpus, records, doc, opens, log>>

\* main lines 183-189, write_data_json lines 164-172
WriteDataJson ==
    /\ pc = "write"
    /\ opens' = opens + 1
    /\ doc' = DataJson(summary, records, root = "dir")
    /\ log' = log \o <<InfoGenerated, InfoDashboard, InfoProcessed>>
    /\ returned' = "0"
    /\ pc' = "done"
    /\ UNCHANGED <<root, corpus, records, summary>>

Next ==
    \/ ReadCsvsStart
    \/ SkipRootEntry
    \/ EnterDir
    \/ SkipEntry
    \/ ParseFile
    \/ FileLoopEnd
    \/ DirLoopEnd
    \/ MainNoRecords
    \/ Aggregate
    \/ WriteDataJson

Spec == Init /\ [][Next]_vars

(***************************************************************************)
(* C1-C3: the scan and the exit signal.                                    *)
(***************************************************************************)
\* a file's numeric columns all coerce: each of the four float columns is
\* missing from the zipped row, empty, "NA" in any casing, or a number
Coerces(file) ==
    LET d == ZipDict(file.rows[1], file.rows[2])
    IN  \A c \in FloatColumns :
            \/ c \notin DOMAIN d
            \/ d[c] = ""
            \/ Upper(d[c]) = "NA"
            \/ PyFloat(d[c]).k \in {"float", "nan", "inf"}

YieldsRecord(file) ==
    /\ file.is_file /\ CSV_PATTERN(file.name)
    /\ file.readable
    /\ Len(file.rows) >= 2
    /\ Coerces(file)

\* the files of the subdirectories of a listing, in discovery order
RECURSIVE AllFiles(_)
AllFiles(listing) ==
    IF listing = <<>> THEN <<>>
    ELSE (IF listing[1].is_dir THEN listing[1].files ELSE <<>>) \o AllFiles(Tail(listing))

RECURSIVE RecordsOf(_)
RecordsOf(files) ==
    IF files = <<>> THEN <<>>
    ELSE (IF YieldsRecord(files[1])
          THEN <<MakeRecord(ZipDict(files[1].rows[1], files[1].rows[2]))>>
          ELSE <<>>) \o RecordsOf(Tail(files))

Scanning == pc \in {"dirs", "files"}

\* C1: per-file isolation in read_csvs. The record list read_csvs returns
\* holds exactly one record for each file of the corpus that is eligible,
\* readable, has at least two rows and whose numeric columns all coerce, in
\* discovery order, and nothing else; and a step that takes an entry from a
\* listing, whatever the entry, leaves the scan running and the records
\* collected before it as they were.
C1_PerFileIsolation ==
    [][/\ pc' = "check" => records' = RecordsOf(AllFiles(corpus'))
       /\ corpus' # corpus =>
              /\ Scanning' /\ returned' = "no"
              /\ Len(records') >= Len(records)
              /\ SubSeq(records', 1, Len(records)) = records]_vars

\* C1 witness: three eligible files were scanned, the second one with a
\* non-numeric value in a numeric column, and exactly two records came out
C1_Witness ==
    /\ pc = "check"
    /\ Len(AllFiles(corpus)) = 3
    /\ \A i \in 1..3 : AllFiles(corpus)[i].is_file /\ CSV_PATTERN(AllFiles(corpus)[i].name)
    /\ AllFiles(corpus)[2].rows \in BadNumberRows
    /\ YieldsRecord(AllFiles(corpus)[1]) /\ YieldsRecord(AllFiles(corpus)[3])
    /\ Len(records) = 2

Written == doc # PriorDoc

\* C2: exit signal. Every run that ends with at least one parsed record
\* has written the output document and returned 0.
C2_ExitSignal ==
    (pc = "done" /\ records # <<>>) => (returned = "0" /\ Written /\ opens = 1)

\* C3: empty corpus. When read_csvs returns no record (RESULTS missing, or
\* nothing but skipped entries), write_data_json is never reached, and the
\* run ends returning 1 with DATA_JSON never opened and left as it was.
C3_EmptyCorpus ==
    /\ (pc = "write" => records # <<>>)
    /\ (pc \in {"check", "write", "done"} /\ records = <<>>)
           => (opens = 0 /\ doc = PriorDoc /\ returned \in {"no", "1"})
    /\ (pc = "done" /\ records = <<>>) => returned = "1"

\* C3 witness: RESULTS exists and held only files that were skipped
C3_Witness ==
    /\ pc = "done" /\ returned = "1"
    /\ root = "dir"
    /\ Len(AllFiles(corpus)) >= 2
    /\ \E i \in 1..Len(AllFiles(corpus)) : AllFiles(corpus)[i].rows \in BadNumberRows

(***************************************************************************)
(* aggregate as a function of the record list: the list is drawn from the  *)
(* records read_csvs can produce. A record here comes from a file whose    *)
(* header holds the grouping columns and the reduced columns.              *)
(***************************************************************************)
BlankRecord ==
    [k |-> "Record", timestamp |-> "", system |-> "", duration |-> "", cores |-> "",
     config |-> "", detect |-> "", classify |-> "", batch |-> "",
     throughput |-> None, per_stream |-> None, theoretical |-> "", streams |-> "",
     pipeline |-> "", device_config |-> None, avg_power |-> None, efficiency |-> None]

\* grouping fields: config, device_config, detect, classify, batch
AggKeys ==
    {<<"light", None, "CPU", "GPU", "2">>,
     <<"light", Str(""), "CPU", "GPU", "2">>,
     <<"light", Str("devA"), "GPU", "CPU", "2">>,
     <<"foo", Str("devA"), "CPU", "CPU", "10">>}

\* reduced fields: throughput, avg_power, efficiency, theoretical
AggValues ==
    {<<Float(10500), Float(250), Float(0), "3">>,
     <<None, None, None, "NA">>,
     <<Float(0), None, Float(10500), "4">>,
     <<Float(250), None, None, "abc">>}

AggRecords ==
    {[BlankRecord EXCEPT !.config = key[1], !.device_config = key[2], !.detect = key[3],
                         !.classify = key[4], !.batch = key[5],
                         !.throughput = val[1], !.avg_power = val[2],
                         !.efficiency = val[3], !.theoretical = val[4]] :
        key \in AggKeys, val \in AggValues}
    \cup {[BlankRecord EXCEPT !.config = "light", !.detect = "CPU", !.classify = "GPU",
                              !.batch = "2", !.theoretical = "inf"],
          [BlankRecord EXCEPT !.config = "light", !.detect = "CPU", !.classify = "GPU",
                              !.batch = "abc", !.throughput = Float(250)]}

SeqsUpTo(S, n) == UNION {[1..m -> S] : m \in 1..n}

InitAgg ==
    /\ root = "dir"
    /\ corpus = <<>>
    /\ pc = "check"
    /\ records \in SeqsUpTo(AggRecords, MaxRecords)
    /\ summary = <<>>
    /\ doc = PriorDoc
    /\ opens = 0
    /\ log = <<>>
    /\ returned = "no"

NextAgg ==
    \/ Aggregate
    \/ WriteDataJson

SpecAgg == InitAgg /\ [][NextAgg]_vars

\* the records for the ordering of the summary: tiers, device descriptors
\* and batch strings, one row per record or several
SortRecords ==
    {[BlankRecord EXCEPT !.config = c, !.detect = "CPU", !.batch = b] :
        c \in {"light", "medium", "heavy", "foo"}, b \in {"2", "10"}}
    \cup {[BlankRecord EXCEPT !.config = "light", !.detect = "GPU", !.batch = "2"],
          [BlankRecord EXCEPT !.config = "foo", !.detect = "GPU", !.batch = "10"],
          [BlankRecord EXCEPT !.config = "bar", !.detect = "CPU", !.batch = "2"],
          [BlankRecord EXCEPT !.config = "light", !.detect = "CPU", !.batch = "02"]}

InitSort ==
    /\ root = "dir"
    /\ corpus = <<>>
    /\ pc = "check"
    /\ records \in SeqsUpTo(SortRecords, MaxRecords)
    /\ summary = <<>>
    /\ doc = PriorDoc
    /\ opens = 0
    /\ log = <<>>
    /\ returned = "no"

SpecSort == InitSort /\ [][NextAgg]_vars

(***************************************************************************)
(* C4-C9: the summary and the emitted document.                            *)
(***************************************************************************)
\* aggregate has returned its summary to main
AggregateReturned == pc = "write" \/ returned = "0"

RowKey(row) == <<row.config, row.device_config, row.batch>>

\* the indices of the records whose group key is the row's key
GroupOf(row) == {n \in 1..Len(records) : GroupKey(records[n]) = RowKey(row)}

RECURSIVE SumOver(_, _)
SumOver(f, S) ==
    IF S = {} THEN 0
    ELSE LET x == CHOOSE y \in S : TRUE
         IN  f[x] + SumOver(f, S \ {x})

\* C4: every summary row's run count is the number of input records whose
\* group key equals the row's key; every record is counted in exactly one
\* row, and the run counts sum to the number of records.
C4_RunCount ==
    AggregateReturned =>
        /\ \A i \in 1..Len(summary) : summary[i].runs = Cardinality(GroupOf(summary[i]))
        /\ \A n \in 1..Len(records) :
               Cardinality({i \in 1..Len(summary) :
                               RowKey(summary[i]) = GroupKey(records[n])}) = 1
        /\ SumOver([i \in 1..Len(summary) |-> summary[i].runs], 1..Len(summary))
               = Len(records)

\* C4 witness: three records in two groups, one of them counted twice
C4_Witness ==
    /\ AggregateReturned
    /\ Len(records) = 3 /\ Len(summary) = 2
    /\ \E i \in 1..2 : summary[i].runs = 2

\* m (thousandths, a multiple of unit) is a multiple of unit nearest to sum / n
IsRoundedMean(m, sum, n, unit) ==
    /\ m % unit = 0
    /\ 2 * (IF n * m >= sum THEN n * m - sum ELSE sum - n * m) <= unit * n

\* row[field] is absent iff no record of the group has src present, and is
\* otherwise the mean of the present values rounded to 2 decimals
FloatFieldReduced(row, field, src) ==
    LET have == {n \in GroupOf(row) : records[n][src] # None}
        sum == SumOver([n \in have |-> records[n][src].m], have)
    IN  /\ row[field] = None <=> have = {}
        /\ have # {} => /\ row[field].k = "float"
                        /\ IsRoundedMean(row[field].m, sum, Cardinality(have), 10)

\* theoretical_streams is absent iff no record of the group is in have, and
\* is otherwise the mean of their values rounded to the nearest integer
TheoreticalReduced(row, have) ==
    LET sum == SumOver([n \in have |-> PyFloat(records[n].theoretical).m], have)
    IN  /\ row.theoretical_streams = None <=> have = {}
        /\ have # {} => /\ row.theoretical_streams.k = "int"
                        /\ IsRoundedMean(1000 * row.theoretical_streams.n, sum,
                                         Cardinality(have), 1000)

\* a theoretical value is absent: empty, or "na"/"nan" in any casing
TheoreticalAbsent(t) == t = "" \/ Lower(t) \in {"na", "nan"}

\* C5 as stated: each of the four numeric fields of a row is absent iff
\* every record of the group has the field absent, and is otherwise the
\* rounded mean of the non-absent values.
C5_AbsentIffAllAbsent ==
    AggregateReturned =>
        \A i \in 1..Len(summary) :
            /\ FloatFieldReduced(summary[i], "avg_throughput", "throughput")
            /\ FloatFieldReduced(summary[i], "avg_power", "avg_power")
            /\ FloatFieldReduced(summary[i], "efficiency", "efficiency")
            /\ summary[i].theoretical_streams = None
                   <=> \A n \in GroupOf(summary[i]) :
                           TheoreticalAbsent(records[n].theoretical)

\* C5 amended: avg_throughput, avg_power and efficiency are absent iff every
\* record of the group has the field absent, and are otherwise the mean of
\* the non-absent values rounded to 2 decimals; theoretical_streams is
\* absent iff no record of the group has a theoretical value that is
\* non-empty, not "na"/"nan" and a number, and is otherwise the mean of
\* those values rounded to the nearest integer. No field is zero unless
\* that rounded mean is zero.
C5_AbsentIffNoUsableValue ==
    AggregateReturned =>
        \A i \in 1..Len(summary) :
            /\ FloatFieldReduced(summary[i], "avg_throughput", "throughput")
            /\ FloatFieldReduced(summary[i], "avg_power", "avg_power")
            /\ FloatFieldReduced(summary[i], "efficiency", "efficiency")
            /\ TheoreticalReduced(summary[i],
                   {n \in GroupOf(summary[i]) :
                       /\ ~TheoreticalAbsent(records[n].theoretical)
                       /\ PyFloat(records[n].theoretical).k = "float"})

\* C5 witness: a group of three records; none has avg_power (absent), two
\* have a throughput (mean of 0 and 0.25, rounded 0.12) and one a number as
\* theoretical value, another an unparseable one
C5_Witness ==
    /\ AggregateReturned
    /\ \E i \in 1..Len(summary) :
           /\ summary[i].runs = 3
           /\ summary[i].avg_power = None
           /\ summary[i].avg_throughput = Float(120)
           /\ summary[i].theoretical_streams = PyInt(4)
           /\ \E n \in GroupOf(summary[i]) : records[n].theoretical = "abc"
           /\ \E n \in GroupOf(summary[i]) : records[n].throughput = None

\* the tier rank of the ordering: light, medium, heavy, then any other tier
ClaimedRank(tier) ==
    CASE tier = "light" -> 0
      [] tier = "medium" -> 1
      [] tier = "heavy" -> 2
      [] OTHER -> 99

\* (tier rank, device descriptor, batch as integer) of row a is
\* lexicographically <= that of row b
RowLeq(a, b) ==
    \/ ClaimedRank(a.config) < ClaimedRank(b.config)
    \/ /\ ClaimedRank(a.config) = ClaimedRank(b.config)
       /\ \/ StrLess(a.device_config, b.device_config)
          \/ /\ a.device_config = b.device_config
             /\ IntLiterals[a.batch] <= IntLiterals[b.batch]

\* C6: the summary is sorted: any two consecutive rows are in the order of
\* (tier rank, device descriptor, batch as integer), tiers ranked light,
\* medium, heavy, then unlisted, batches compared numerically.
C6_Sorted ==
    AggregateReturned =>
        \A i \in 1..(Len(summary) - 1) : RowLeq(summary[i], summary[i + 1])

\* C6 witness: an unlisted tier was discovered first, then batch "10", then
\* batch "2" of the same tier and device; the rows come out "2", "10", unlisted
C6_Witness ==
    /\ AggregateReturned
    /\ Len(records) = 3 /\ Len(summary) = 3
    /\ records[1].config = "foo"
    /\ records[2].config = "light" /\ records[2].batch = "10"
    /\ records[3].config = "light" /\ records[3].batch = "2"
    /\ records[2].detect = records[3].detect
    /\ summary[1].batch = "2" /\ summary[2].batch = "10" /\ summary[3].config = "foo"

\* the records in another order: position i takes the record at p[i]
Reordered(recs, p) == [i \in 1..Len(recs) |-> recs[p[i]]]

\* what aggregate lists for a record list: each row's group key and its
\* sort key (tier rank, device descriptor, batch as integer) in order, or
\* the fact that it raised
Listed(recs) ==
    LET res == aggregate(recs)
    IN  IF res.raised THEN [raised |-> TRUE]
        ELSE [raised |-> FALSE,
              keys |-> [i \in 1..Len(res.summary) |-> RowKey(res.summary[i])],
              sort_keys |-> [i \in 1..Len(res.summary) |->
                                <<ClaimedRank(res.summary[i].config),
                                  res.summary[i].device_config,
                                  IntLiterals[res.summary[i].batch]>>]]

\* what main got from aggregate(records)
ListedNow ==
    IF returned = "exception" THEN [raised |-> TRUE]
    ELSE [raised |-> FALSE,
          keys |-> [i \in 1..Len(summary) |-> RowKey(summary[i])],
          sort_keys |-> [i \in 1..Len(summary) |->
                            <<ClaimedRank(summary[i].config), summary[i].device_config,
                              IntLiterals[summary[i].batch]>>]]

AggregateJustEnded == pc = "write" \/ returned = "exception"

\* C7 as stated: for any two orderings of the same records, aggregate lists
\* the same group keys in the same positions.
C7_OrderIndependent ==
    AggregateJustEnded =>
        \A p \in Permutations(1..Len(records)) :
            LET other == Listed(Reordered(records, p))
            IN  /\ other.raised = ListedNow.raised
                /\ ~other.raised => other.keys = ListedNow.keys

\* the index of the first record of the group with this key
FirstSeen(key) ==
    CHOOSE n \in 1..Len(records) :
        /\ GroupKey(records[n]) = key
        /\ \A m \in 1..(n - 1) : GroupKey(records[m]) # key

\* C7 amended: for any two orderings of the same records, aggregate lists
\* the same sort keys (tier rank, device descriptor, batch as integer) in
\* the same positions, and the same group keys in the same positions
\* whenever no two groups share a sort key; groups that share one (unlisted
\* tiers at the same device and batch, batch strings denoting the same
\* integer) are listed in the order their first records were discovered.
C7_OrderIndependentUpToTies ==
    AggregateJustEnded =>
        /\ \A p \in Permutations(1..Len(records)) :
               LET other == Listed(Reordered(records, p))
               IN  /\ other.raised = ListedNow.raised
                   /\ ~other.raised =>
                          /\ other.sort_keys = ListedNow.sort_keys
                          /\ (\A i, j \in 1..Len(summary) :
                                  ListedNow.sort_keys[i] = ListedNow.sort_keys[j] => i = j)
                                 => other.keys = ListedNow.keys
        /\ ~ListedNow.raised =>
               \A i, j \in 1..Len(summary) :
                   (i < j /\ ListedNow.sort_keys[i] = ListedNow.sort_keys[j])
                       => FirstSeen(ListedNow.keys[i]) < FirstSeen(ListedNow.keys[j])

\* C7 witness: three records of three groups with distinct sort keys,
\* discovered in the reverse of the order they are listed in
C7_Witness ==
    /\ pc = "write"
    /\ Len(records) = 3 /\ Len(summary) = 3
    /\ \A i, j \in 1..3 : ListedNow.sort_keys[i] = ListedNow.sort_keys[j] => i = j
    /\ \A i \in 1..3 : RowKey(summary[i]) = GroupKey(records[4 - i])
    /\ records[1].config = "foo" /\ records[2].config = "light"
    /\ records[3].batch = "02"

\* json.load of a JSON value: null is None, a string a str, a number with a
\* fraction part a float, one without an int
PyOfJson(v) ==
    CASE v.j = "null" -> None
      [] v.j = "string" -> Str(v.s)
      [] v.j = "number" /\ v.frac -> Float(v.m)
      [] v.j = "number" /\ ~v.frac -> PyInt(v.m \div 1000)
      [] v.j = "NaN" -> NaN
      [] v.j = "Infinity" -> Inf

\* Record(**obj) for an object of the document's raw array
RecordOfJson(obj) ==
    [k |-> "Record",
     timestamp |-> PyOfJson(obj.timestamp).s,
     system |-> PyOfJson(obj.system).s,
     duration |-> PyOfJson(obj.duration).s,
     cores |-> PyOfJson(obj.cores).s,
     config |-> PyOfJson(obj.config).s,
     detect |-> PyOfJson(obj.detect).s,
     classify |-> PyOfJson(obj.classify).s,
     batch |-> PyOfJson(obj.batch).s,
     throughput |-> PyOfJson(obj.throughput),
     per_stream |-> PyOfJson(obj.per_stream),
     theoretical |-> PyOfJson(obj.theoretical).s,
     streams |-> PyOfJson(obj.streams).s,
     pipeline |-> PyOfJson(obj.pipeline).s,
     device_config |-> PyOfJson(obj.device_config),
     avg_power |-> PyOfJson(obj.avg_power),
     efficiency |-> PyOfJson(obj.efficiency)]

\* C8: round trip. After a successful run, the document's raw array, read
\* back, re-grouped and re-aggregated in its emitted order, gives the
\* document's summary array, row for row and field for field.
C8_RoundTrip ==
    returned = "0" =>
        LET raw == [i \in 1..Len(doc.raw) |-> RecordOfJson(doc.raw[i])]
            res == aggregate(raw)
        IN  /\ ~res.raised
            /\ [i \in 1..Len(res.summary) |-> RowJson(res.summary[i])] = doc.summary

\* C8 witness: a document with three raw records in two groups, one record
\* with a null throughput in a group whose average is not null
C8_Witness ==
    /\ returned = "0"
    /\ Len(doc.raw) = 3 /\ Len(doc.summary) = 2
    /\ \E i \in 1..3, n \in 1..2 :
           /\ doc.raw[i].throughput = JsonNull
           /\ doc.raw[i].device_config = JsonNull
           /\ doc.summary[n].device_config = JsonString("CPU-GPU")
           /\ doc.summary[n].runs = JsonOf(PyInt(2))
           /\ doc.summary[n].avg_throughput.j = "number"

IsJsonZero(v) == v.j = "number" /\ v.m = 0

\* the emitted value v stands for the Python value x: null for None only,
\* and a zero only for a number that is zero
PresencePreserved(v, x) ==
    /\ v = JsonNull <=> x = None
    /\ IsJsonZero(v) => x \in {Float(0), PyInt(0)}
    /\ x \in {Float(0), PyInt(0)} => IsJsonZero(v)

\* C9: in the written document every summary row carries all ten keys and
\* every raw record all sixteen fields; an absent numeric value (and an
\* absent device_config of a raw record) is an explicit null under its key,
\* and a zero is emitted only for a value that is numerically zero.
C9_PresencePreserved ==
    returned = "0" =>
        /\ Len(doc.summary) = Len(summary) /\ Len(doc.raw) = Len(records)
        /\ \A i \in 1..Len(summary) :
               /\ DOMAIN doc.summary[i] = SummaryKeys
               /\ \A f \in {"avg_throughput", "theoretical_streams", "avg_power",
                            "efficiency"} :
                      PresencePreserved(doc.summary[i][f], summary[i][f])
               /\ doc.summary[i].runs = JsonOf(PyInt(summary[i].runs))
        /\ \A n \in 1..Len(records) :
               /\ DOMAIN doc.raw[n] = RecordFields
               /\ \A f \in {"throughput", "per_stream", "avg_power", "efficiency"} :
                      PresencePreserved(doc.raw[n][f], records[n][f])
               /\ doc.raw[n].device_config = JsonNull <=> records[n].device_config = None

\* C9 witness: a written summary row with an average of zero beside an
\* absent average, from a raw record with a zero and an absent value
C9_Witness ==
    /\ returned = "0"
    /\ \E i \in 1..Len(summary), n \in 1..Len(records) :
           /\ IsJsonZero(doc.summary[i].avg_throughput)
           /\ doc.summary[i].avg_power = JsonNull
           /\ IsJsonZero(doc.raw[n].throughput)
           /\ doc.raw[n].avg_power = JsonNull
           /\ doc.raw[n].device_config = JsonString("")

(***************************************************************************)
(* The record parser as a function of one file: the file is the entry the  *)
(* listing has just yielded, and the step is the body of the inner loop    *)
(* for it (lines 58-99).                                                   *)
(***************************************************************************)
UnknownColumn == "Notes"

\* the columns a header can hold, in the order a file lists them, and the
\* value of each in the data row
AllColumns ==
    <<ColTimestamp, ColSystem, ColDuration, ColCores, ColConfig, ColDetect,
      ColClassify, ColBatch, ColThroughput, ColPerStream, ColTheoretical,
      ColStreams, UnknownColumn, ColPipeline1, ColPipeline2, ColPipeline,
      ColDeviceConfig, ColAvgPower, ColEfficiency>>

ColumnValue ==
    (ColTimestamp :> "2025-01-01 10:00") @@ (ColSystem :> "host1") @@
    (ColDuration :> "120") @@ (ColCores :> "0-7") @@ (ColConfig :> "light") @@
    (ColDetect :> "CPU") @@ (ColClassify :> "GPU") @@ (ColBatch :> "2") @@
    (ColThroughput :> "10.5") @@ (ColPerStream :> "0.25") @@ (ColTheoretical :> "3") @@
    (ColStreams :> "4") @@ (UnknownColumn :> "abc") @@ (ColPipeline1 :> "detect") @@
    (ColPipeline2 :> "classify") @@ (ColPipeline :> "single") @@
    (ColDeviceConfig :> "devA") @@ (ColAvgPower :> "0") @@ (ColEfficiency :> "NA")

\* the file whose header holds the columns of the set present
FileWithColumns(present) ==
    LET Has(c) == c \in present
        header == SelectSeq(AllColumns, Has)
    IN  [name |-> EligibleNames[1], is_file |-> TRUE, readable |-> TRUE,
         rows |-> <<header, [i \in 1..Len(header) |-> ColumnValue[header[i]]]>>]

InitParse ==
    /\ root = "dir"
    /\ \E present \in SUBSET RecognizedColumns :
           corpus = <<[name |-> RootNames[1], is_dir |-> TRUE,
                       files |-> <<FileWithColumns(present \cup {UnknownColumn})>>]>>
    /\ pc = "entry"
    /\ records = <<>>
    /\ summary = <<>>
    /\ doc = PriorDoc
    /\ opens = 0
    /\ log = <<InfoScanning(RootNames[1])>>
    /\ returned = "no"

\* lines 58-99 for the entry the listing yielded last
ProcessEntry ==
    /\ pc = "entry"
    /\ LET e == corpus[Len(corpus)].files[Len(corpus[Len(corpus)].files)]
       IN  IF e.is_file /\ CSV_PATTERN(e.name)
           THEN TryBlock(e)
           ELSE UNCHANGED <<records, log>>
    /\ pc' = "files"
    /\ UNCHANGED <<root, corpus, summary, doc, opens, returned>>

SpecParse == InitParse /\ [][ProcessEntry]_vars

(***************************************************************************)
(* C10: missing columns.                                                   *)
(***************************************************************************)
\* the file the parser was given, and the columns of its header
GivenFile == corpus[1].files[1]
GivenColumns == {GivenFile.rows[1][i] : i \in 1..Len(GivenFile.rows[1])}

\* the record field filled from each plain string column
StringFieldOf ==
    (ColTimestamp :> "timestamp") @@ (ColSystem :> "system") @@
    (ColDuration :> "duration") @@ (ColCores :> "cores") @@ (ColConfig :> "config") @@
    (ColDetect :> "detect") @@ (ColClassify :> "classify") @@ (ColBatch :> "batch") @@
    (ColTheoretical :> "theoretical") @@ (ColStreams :> "streams")

\* the record field filled from each numeric-optional column
FloatFieldOf ==
    (ColThroughput :> "throughput") @@ (ColPerStream :> "per_stream") @@
    (ColAvgPower :> "avg_power") @@ (ColEfficiency :> "efficiency")

\* C10: a missing column is not an error. For any subset of the recognized
\* columns in the header (the data row valid), the file yields one record,
\* and no warning; each string field whose column is missing is "", each
\* numeric-optional field whose column is missing is None, device_config is
\* None when its column is missing; a field whose column is present holds
\* the column's value; the unrecognized column does not affect the record.
C10_MissingColumns ==
    pc = "files" =>
        /\ Len(records) = 1
        /\ Len(log) = 1
        /\ \A c \in DOMAIN StringFieldOf :
               records[1][StringFieldOf[c]]
                   = IF c \in GivenColumns THEN ColumnValue[c] ELSE ""
        /\ \A c \in DOMAIN FloatFieldOf :
               IF c \in GivenColumns
               THEN records[1][FloatFieldOf[c]]
                        = (IF ColumnValue[c] = "NA" THEN None
                           ELSE Float(FloatLiterals[ColumnValue[c]]))
               ELSE records[1][FloatFieldOf[c]] = None
        /\ records[1].device_config
               = IF ColDeviceConfig \in GivenColumns THEN Str(ColumnValue[ColDeviceConfig])
                 ELSE None
        /\ GivenColumns \cap PipelineColumns = {} => records[1].pipeline = ""
        /\ LET plain == FileWithColumns(GivenColumns \ {UnknownColumn})
           IN  records[1] = MakeRecord(ZipDict(plain.rows[1], plain.rows[2]))

\* C10 witness: a file with the unrecognized column and without the Batch,
\* Throughput, Avg Power, Device Configuration and pipeline columns was parsed
C10_Witness ==
    /\ pc = "files"
    /\ Len(records) = 1
    /\ UnknownColumn \in GivenColumns
    /\ GivenColumns \cap
           ({ColBatch, ColThroughput, ColAvgPower, ColDeviceConfig} \cup PipelineColumns) = {}
    /\ {ColConfig, ColPerStream, ColEfficiency} \subseteq GivenColumns
    /\ records[1].batch = "" /\ records[1].throughput = None
    /\ records[1].device_config = None /\ records[1].per_stream = Float(250)

(***************************************************************************)
(* C11: the pipeline descriptor.                                           *)
(***************************************************************************)
\* the descriptor of a dual-stage pipeline
DualDescriptor(p1, p2) == "Pipeline1: " \o p1 \o "... | Pipeline2: " \o p2 \o "..."

\* C11: pipeline descriptor precedence. For every subset of the columns
\* Pipeline1, Pipeline2, Pipeline in the header, the record's pipeline is
\* the dual descriptor when Pipeline1 and Pipeline2 are both present
\* (whatever Pipeline holds), else Pipeline1's value when Pipeline1 is
\* present, else the Pipeline column's value, or "" when that column is
\* missing too (Pipeline2 alone gives "").
C11_PipelinePrecedence ==
    pc = "files" =>
        /\ Len(records) = 1
        /\ records[1].pipeline =
               IF ColPipeline1 \in GivenColumns /\ ColPipeline2 \in GivenColumns
               THEN DualDescriptor(ColumnValue[ColPipeline1], ColumnValue[ColPipeline2])
               ELSE IF ColPipeline1 \in GivenColumns THEN ColumnValue[ColPipeline1]
               ELSE IF ColPipeline \in GivenColumns THEN ColumnValue[ColPipeline]
               ELSE ""
        /\ GivenColumns \cap PipelineColumns = {ColPipeline2} => records[1].pipeline = ""

\* C11 witness: a file with all three pipeline columns was parsed, and the
\* record carries the dual descriptor, not the Pipeline column's value
C11_Witness ==
    /\ pc = "files"
    /\ Len(records) = 1
    /\ PipelineColumns \subseteq GivenColumns
    /\ records[1].pipeline = "Pipeline1: detect... | Pipeline2: classify..."

(***************************************************************************)
(* C12: the traversal.                                                     *)
(***************************************************************************)
\* the names that hold the literal "e2e-edge-pipeline_"
ContainsLiteral(name) ==
    name \in {"e2e-edge-pipeline_light.csv", "e2e-edge-pipeline_a.csv\n",
              "x_e2e-edge-pipeline_2.csv", "e2e-edge-pipeline_.csv",
              "e2e-edge-pipeline_a.b.csv", "e2e-edge-pipeline_light.csv.bak",
              "e2e-edge-pipeline_a\nb.csv", "e2e-edge-pipeline_light.CSV"}

\* the names whose last four characters are ".csv"
EndsWithCsv(name) ==
    name \in {"e2e-edge-pipeline_light.csv", "x_e2e-edge-pipeline_2.csv",
              "e2e-edge-pipeline_.csv", "e2e-edge-pipeline_a.b.csv",
              "e2e-edge-pipeline_a\nb.csv", "e2e-edge-pipeline.csv", "notes.csv"}

\* the step took an entry from the listing of a subdirectory
TookEntry == CountFiles(corpus') = CountFiles(corpus) + 1

\* that entry
EntryTaken == corpus'[Len(corpus')].files[Len(corpus'[Len(corpus')].files)]

\* the step's parse of the entry left a trace: a record or a warning
ParseVisible == records' # records \/ log' # log

\* C12: two-level traversal. An entry is parsed if and only if it is a
\* regular file listed directly in a subdirectory of RESULTS whose name
\* holds "e2e-edge-pipeline_" and ends with ".csv": a step that takes an
\* entry from a subdirectory parses it only if it is such a file, and does
\* parse it if it is one (seen for every file that is unreadable or has at
\* least two rows); any other step of the scan (a root entry that is a file,
\* a subdirectory being entered, the end of a listing) parses nothing.
C12_TwoLevels ==
    [][/\ TookEntry =>
              LET e == EntryTaken
                  eligible == e.is_file /\ ContainsLiteral(e.name) /\ EndsWithCsv(e.name)
              IN  /\ ParseVisible => eligible
                  /\ (eligible /\ (~e.readable \/ Len(e.rows) >= 2)) => ParseVisible
       /\ (Scanning /\ ~TookEntry) => records' = records]_vars

(***************************************************************************)
(* aggregate as a function of the record list, for the grouping: records   *)
(* with and without a Device Configuration column, with an empty label,    *)
(* with a label shared by different device pairs, with device names that   *)
(* hold a hyphen, and with different batch strings and tiers.              *)
(***************************************************************************)
\* config, device_config, detect, classify, batch
GroupFields ==
    {<<"light", None, "CPU", "GPU", "2">>,
     <<"light", None, "GPU", "CPU", "2">>,
     <<"light", Str(""), "CPU", "GPU", "2">>,
     <<"light", Str(""), "GPU", "GPU", "2">>,
     <<"light", Str("devA"), "CPU", "GPU", "2">>,
     <<"light", Str("devA"), "GPU", "CPU", "2">>,
     <<"light", Str("devB"), "CPU", "GPU", "2">>,
     <<"light", Str("CPU-GPU"), "GPU", "CPU", "2">>,
     <<"light", None, "GPU", "NPU-CPU", "2">>,
     <<"light", None, "GPU-NPU", "CPU", "2">>,
     <<"light", None, "CPU", "GPU", "02">>,
     <<"foo", None, "CPU", "GPU", "2">>}

GroupRecords ==
    {[BlankRecord EXCEPT !.config = f[1], !.device_config = f[2], !.detect = f[3],
                         !.classify = f[4], !.batch = f[5]] : f \in GroupFields}

InitGroup ==
    /\ root = "dir"
    /\ corpus = <<>>
    /\ pc = "check"
    /\ records \in SeqsUpTo(GroupRecords, MaxRecords)
    /\ summary = <<>>
    /\ doc = PriorDoc
    /\ opens = 0
    /\ log = <<>>
    /\ returned = "no"

SpecGroup == InitGroup /\ [][NextAgg]_vars

(***************************************************************************)
(* C13: the grouping key.                                                  *)
(***************************************************************************)
\* "{detect}-{classify}"
DetectClassify(r) == r.detect \o "-" \o r.classify

\* the device descriptor as stated: the label whenever the record has one
LabelIfPresent(r) ==
    IF r.device_config # None THEN r.device_config.s ELSE DetectClassify(r)

\* the device descriptor: the label when the record has one that is not empty
LabelIfNonEmpty(r) ==
    IF r.device_config # None /\ r.device_config # Str("")
    THEN r.device_config.s
    ELSE DetectClassify(r)

\* the summary is the grouping of the records by (config, D(r), batch): every
\* record's triple is the key of exactly one row, every row is the triple of
\* a record and counts the records with that triple
GroupedBy(D(_)) ==
    LET Triple(r) == <<r.config, D(r), r.batch>>
    IN  /\ \A n \in 1..Len(records) :
               Cardinality({i \in 1..Len(summary) :
                               RowKey(summary[i]) = Triple(records[n])}) = 1
        /\ \A i \in 1..Len(summary) :
               summary[i].runs
                   = Cardinality({n \in 1..Len(records) :
                                     Triple(records[n]) = RowKey(summary[i])})
        /\ \A i \in 1..Len(summary) : summary[i].runs >= 1

\* C13 as stated: the device descriptor of a record is its label whenever
\* the record has one, whatever its value, and "{detect}-{classify}" only
\* when it has none; the rows are the groups of records with equal
\* (config, device descriptor, batch string).
C13_LabelWheneverPresent ==
    AggregateReturned => GroupedBy(LabelIfPresent)

\* C13 amended: the device descriptor of a record is its label when the
\* record has one and it is not the empty string, and "{detect}-{classify}"
\* when the label is absent or empty; the rows are the groups of records
\* with equal (config, device descriptor, batch string).
C13_LabelWhenNonEmpty ==
    AggregateReturned => GroupedBy(LabelIfNonEmpty)

\* C13 witness: a record with an empty label, one with no label and the
\* same devices, and one with a label; the first two share a row
C13_Witness ==
    /\ AggregateReturned
    /\ Len(records) = 3 /\ Len(summary) = 2
    /\ records[1].device_config = Str("") /\ records[2].device_config = None
    /\ records[3].device_config = Str("devA")
    /\ \E i \in 1..2 : summary[i].device_config = "CPU-GPU" /\ summary[i].runs = 2
    /\ \E i \in 1..2 : summary[i].device_config = "devA" /\ summary[i].runs = 1

(***************************************************************************)
(* C14: the representative detect and classify of a row.                   *)
(***************************************************************************)
\* the first record, in input order, of the row's group
FirstOfGroup(row) ==
    records[CHOOSE n \in GroupOf(row) : \A m \in GroupOf(row) : n <= m]

\* the row reports the detect and classify values of the first record of
\* its group
RepresentsFirst(row) ==
    /\ row.detect = FirstOfGroup(row).detect
    /\ row.classify = FirstOfGroup(row).classify

\* C14 as stated: every row's detect and classify are those of the first
\* record of its group, and every record of the group has the same detect
\* and classify values as the row reports.
C14_Homogeneous ==
    AggregateReturned =>
        \A i \in 1..Len(summary) :
            /\ RepresentsFirst(summary[i])
            /\ \A n \in GroupOf(summary[i]) :
                   /\ records[n].detect = summary[i].detect
                   /\ records[n].classify = summary[i].classify

\* C14 amended: every row's detect and classify are those of the first
\* record of its group; every record of the group has the row's device
\* descriptor (its label if not empty, else "{detect}-{classify}"), so the
\* records of the group that carry no label agree on the string
\* "{detect}-{classify}" - and with the row's detect and classify joined the
\* same way when the first record carries no label either; the records'
\* detect and classify values themselves need not equal the row's.
C14_FirstRecordOnly ==
    AggregateReturned =>
        \A i \in 1..Len(summary) :
            /\ RepresentsFirst(summary[i])
            /\ \A n \in GroupOf(summary[i]) :
                   /\ LabelIfNonEmpty(records[n]) = summary[i].device_config
                   /\ ( /\ ~Truthy(records[n].device_config)
                        /\ ~Truthy(FirstOfGroup(summary[i]).device_config) )
                          => DetectClassify(records[n]) = DetectClassify(summary[i])

\* C14 witness: a row of three records that share a label, discovered with
\* detect GPU first and detect CPU later; the row reports GPU
C14_Witness ==
    /\ AggregateReturned
    /\ Len(records) = 3 /\ Len(summary) = 1
    /\ summary[1].runs = 3 /\ summary[1].device_config = "devA"
    /\ records[1].detect = "GPU" /\ records[2].detect = "CPU"
    /\ summary[1].detect = "GPU" /\ summary[1].classify = "CPU"

(***************************************************************************)
(* C15: the theoretical stream density of a group.                         *)
(***************************************************************************)
\* every batch is an integer, so the sort of the summary cannot fail
BatchesAreIntegers == \A n \in 1..Len(records) : records[n].batch \in DOMAIN IntLiterals

\* C15: the theoretical reduction never fails the group. Whatever strings
\* the theoretical fields of the records hold, aggregate returns (the
\* batches being integers), and every row's theoretical_streams is the mean,
\* rounded to the nearest integer, of the values of its group that are
\* non-empty, not "na"/"nan" in any casing and usable as a number, or is
\* absent when there is no such value.
C15_TheoreticalNeverFails ==
    (AggregateJustEnded /\ BatchesAreIntegers) =>
        /\ returned # "exception"
        /\ \A i \in 1..Len(summary) :
               TheoreticalReduced(summary[i],
                   {n \in GroupOf(summary[i]) :
                       /\ ~TheoreticalAbsent(records[n].theoretical)
                       /\ records[n].theoretical \in DOMAIN FloatLiterals})

(***************************************************************************)
(* The record parser as a function of the numeric-optional columns of one  *)
(* file: each of the four columns is missing from the header (None) or     *)
(* holds one of the values below in the data row.                          *)
(***************************************************************************)
NumericCells ==
    {"", "NA", "na", "Na", "N/A", "abc", "0", "10.5", " 2", "nan", "inf"}

FloatColumnSeq == <<ColThroughput, ColPerStream, ColAvgPower, ColEfficiency>>

\* the file with Pipeline Config, Batch and the numeric columns that cells
\* gives a value
FileWithCells(cells) ==
    LET Has(c) == cells[c] # None
        cols == SelectSeq(FloatColumnSeq, Has)
    IN  [name |-> EligibleNames[1], is_file |-> TRUE, readable |-> TRUE,
         rows |-> << <<ColConfig, ColBatch>> \o cols,
                     <<"light", "2">> \o [i \in 1..Len(cols) |-> cells[cols[i]].s] >>]

InitCoerce ==
    /\ root = "dir"
    /\ \E cells \in [FloatColumns -> {Str(v) : v \in NumericCells} \cup {None}] :
           corpus = <<[name |-> RootNames[1], is_dir |-> TRUE,
                       files |-> <<FileWithCells(cells)>>]>>
    /\ pc = "entry"
    /\ records = <<>>
    /\ summary = <<>>
    /\ doc = PriorDoc
    /\ opens = 0
    /\ log = <<InfoScanning(RootNames[1])>>
    /\ returned = "no"

SpecCoerce == InitCoerce /\ [][ProcessEntry]_vars

(***************************************************************************)
(* C16: numeric coercion.                                                  *)
(***************************************************************************)
\* the value the given file holds for a numeric column, or None when the
\* header does not hold the column
GivenCell(c) ==
    IF c \in GivenColumns
    THEN Str(GivenFile.rows[2][CHOOSE i \in 1..Len(GivenFile.rows[1]) :
                                  GivenFile.rows[1][i] = c])
    ELSE None

\* absent, empty, or "NA" in any casing
CellIsNone(v) == v = None \/ v.s = "" \/ v.s \in {"NA", "na", "Na", "nA"}

\* the float of a numeric string
CellNumber ==
    ("0" :> Float(0)) @@ ("10.5" :> Float(10500)) @@ (" 2" :> Float(2000)) @@
    ("nan" :> NaN) @@ ("inf" :> Inf)

\* C16: parse_float on the four numeric-optional columns. When every one of
\* them is absent, empty, "NA" in any casing or a numeric string, the file
\* yields one record and no warning, in which a field is None exactly when
\* its column is absent, empty or "NA" in any casing, and is the float of
\* the string otherwise; when any of them holds other content, the file yields
\* no record (it is not coerced to None or to a default) and a warning is
\* printed for it.
C16_NumericCoercion ==
    pc = "files" =>
        IF \A c \in FloatColumns : CellIsNone(GivenCell(c)) \/ GivenCell(c).s \in DOMAIN CellNumber
        THEN /\ Len(records) = 1
             /\ Len(log) = 1
             /\ \A c \in FloatColumns :
                    /\ records[1][FloatFieldOf[c]] = None <=> CellIsNone(GivenCell(c))
                    /\ ~CellIsNone(GivenCell(c))
                           => records[1][FloatFieldOf[c]] = CellNumber[GivenCell(c).s]
        ELSE /\ records = <<>>
             /\ log = <<InfoScanning(RootNames[1]), WarnFailed(GivenFile.name)>>

\* C16 witness: a file with "na" as throughput, no per-stream column, a
\* number as power and an empty efficiency was parsed into a record
C16_Witness ==
    /\ pc = "files"
    /\ GivenCell(ColThroughput) = Str("na") /\ GivenCell(ColPerStream) = None
    /\ GivenCell(ColAvgPower) = Str("10.5") /\ GivenCell(ColEfficiency) = Str("")
    /\ Len(records) = 1
    /\ records[1].throughput = None /\ records[1].per_stream = None
    /\ records[1].avg_power = Float(10500) /\ records[1].efficiency = None

(***************************************************************************)
(* C17: every skipped file is reported.                                    *)
(***************************************************************************)
\* C17: whenever the scan takes an eligible (regular, name-matching) file
\* that adds no record - it is unreadable, has fewer than two rows, or a
\* numeric column does not coerce - that step prints a warning naming the
\* file, before the next entry is taken.
C17_SkippedFileWarned ==
    [][(/\ TookEntry
        /\ EntryTaken.is_file /\ CSV_PATTERN(EntryTaken.name)
        /\ records' = records)
           => log' = Append(log, WarnFailed(EntryTaken.name))]_vars

(***************************************************************************)
(* C18: the order of emission within a run.                                *)
(***************************************************************************)
\* the warnings printed so far
Warnings == SelectSeq(log, LAMBDA line : line.level = "Warning")

\* the eligible files the scan has taken so far
EligibleTaken ==
    SelectSeq(AllFiles(corpus), LAMBDA f : f.is_file /\ CSV_PATTERN(f.name))

\* C18: emission comes last and once. DATA_JSON is opened for writing at
\* most once in a run; when it has been opened the scan is over, every
\* eligible file of the corpus was parsed exactly once (one record for each
\* file that yields one, in discovery order, and never more records and
\* warnings than files), aggregate has returned the sorted summary of these
\* records, and the document holds that summary and these records. Until
\* then, and in every run that returns 1 or ends with an exception raised
\* by aggregate, DATA_JSON is never opened and holds what it held before.
C18_EmitLast ==
    /\ opens \in {0, 1}
    /\ Len(records) + Len(Warnings) <= Len(EligibleTaken)
    /\ opens = 1 =>
           /\ pc = "done" /\ returned = "0"
           /\ records = RecordsOf(AllFiles(corpus))
           /\ ~aggregate(records).raised
           /\ summary = aggregate(records).summary
           /\ doc = DataJson(summary, records, TRUE)
    /\ opens = 0 => doc = PriorDoc
    /\ (pc # "done" \/ returned \in {"1", "exception"}) => opens = 0

\* C18 witness: a run over three eligible files, one of them skipped with
\* a warning, that wrote the document once with the two records
C18_Witness ==
    /\ returned = "0" /\ opens = 1
    /\ Len(EligibleTaken) = 3 /\ Len(Warnings) = 1
    /\ Len(doc.raw) = 2
    /\ Len(doc.summary) = 2

====
